---- MODULE Spec2Model ----
(***************************************************************************)
(* Model of dfu_v10.py: the transcript analyzer, the email drafter and the *)
(* Streamlit page (main) that drives them over a session.                  *)
(*                                                                         *)
(* Text is a sequence of tokens.  A token is one character of punctuation  *)
(* or white space, or a word (a run of letters that contains none of the   *)
(* punctuation below).  BT stands for the backtick character.              *)
(***************************************************************************)
EXTENDS Integers, Sequences, FiniteSets, TLC

VARIABLES api_key, insights, email_draft, draft_from,
          transcript, contact_name, template_type, stub, draft_stub,
          calls, errors, outcome, returned, rendered, download, button

vars == <<api_key, insights, email_draft, draft_from,
          transcript, contact_name, template_type, stub, draft_stub,
          calls, errors, outcome, returned, rendered, download, button>>

-----------------------------------------------------------------------------
(* Characters *)

BT == "<backtick>"
QUOTE == "\""
SP == " "
NL == "\n"
CR == "\r"
TAB == "\t"

\* str.strip() with no argument removes these from both ends
Whitespace == {SP, NL, CR, TAB}

\* white space json.loads skips between tokens
JsonWhitespace == {SP, NL, CR, TAB}

Fence == <<BT, BT, BT>>
JsonFence == <<BT, BT, BT, "json">>

-----------------------------------------------------------------------------
(* Python values: None, str, list, dict (insertion ordered) *)

None == [t |-> "none", v |-> <<>>]
Str(toks) == [t |-> "str", v |-> toks]
Arr(items) == [t |-> "arr", v |-> items]
Obj(pairs) == [t |-> "obj", v |-> pairs]
KV(key, val) == [k |-> key, val |-> val]

\* bool(x) as used by `if x:` and `not x`
Truthy(x) == x.t # "none" /\ Len(x.v) > 0

HasKey(d, key) == \E i \in 1..Len(d.v) : d.v[i].k = key

\* d[key] for a key that is present
GetItem(d, key) == d.v[CHOOSE i \in 1..Len(d.v) : d.v[i].k = key].val

\* d[key] = val : a present key keeps its position, a new key is appended
SetItem(pairs, key, val) ==
    IF \E i \in 1..Len(pairs) : pairs[i].k = key
    THEN [i \in 1..Len(pairs) |-> IF pairs[i].k = key THEN KV(key, val) ELSE pairs[i]]
    ELSE Append(pairs, KV(key, val))

-----------------------------------------------------------------------------
(* str methods *)

\* s[i:] starts with sub
StartsAt(s, sub, i) ==
    /\ i + Len(sub) - 1 <= Len(s)
    /\ (sub = <<>> \/ s[i] = sub[1])
    /\ \A j \in 1..Len(sub) : s[i + j - 1] = sub[j]

\* `sub in s`
Contains(s, sub) == \E i \in 1..Len(s) : StartsAt(s, sub, i)

\* s.find(sub, i), 1-based; 0 when absent
Find(s, sub, i) ==
    LET hits == {j \in i..Len(s) : StartsAt(s, sub, j)}
    IN  IF hits = {} THEN 0 ELSE CHOOSE j \in hits : \A k \in hits : j <= k

\* s.split(sub): the list of pieces between the occurrences of sub
RECURSIVE Split(_, _)
Split(s, sub) ==
    LET i == Find(s, sub, 1)
    IN  IF i = 0 THEN <<s>>
        ELSE <<SubSeq(s, 1, i - 1)>> \o Split(SubSeq(s, i + Len(sub), Len(s)), sub)

RECURSIVE LStrip(_)
LStrip(s) == IF s # <<>> /\ Head(s) \in Whitespace THEN LStrip(Tail(s)) ELSE s

RECURSIVE RStrip(_)
RStrip(s) ==
    IF s # <<>> /\ s[Len(s)] \in Whitespace THEN RStrip(SubSeq(s, 1, Len(s) - 1)) ELSE s

\* s.strip()
Strip(s) == RStrip(LStrip(s))

\* s.replace(old, new) for a one-character old; new is a string
RECURSIVE Replace(_, _, _)
Replace(s, old, new) ==
    IF s = <<>> THEN <<>>
    ELSE (IF Head(s) = old THEN new ELSE <<Head(s)>>) \o Replace(Tail(s), old, new)

-----------------------------------------------------------------------------
(* json.loads: the decoder for null, strings, arrays and objects.  A result *)
(* is [ok, val, pos]: pos is the index of the first token not yet read;     *)
(* ok = FALSE stands for json.JSONDecodeError.                              *)

DecodeError == [ok |-> FALSE, val |-> None, pos |-> 0]
Decoded(val, pos) == [ok |-> TRUE, val |-> val, pos |-> pos]

At(s, i) == IF i >= 1 /\ i <= Len(s) THEN s[i] ELSE "<end>"

RECURSIVE SkipWs(_, _)
SkipWs(s, i) == IF At(s, i) \in JsonWhitespace THEN SkipWs(s, i + 1) ELSE i

\* control characters that a strict decoder rejects inside a string
ControlChars == {NL, CR, TAB}

\* the index of the first quote at or after i; 0 when there is none
RECURSIVE NextQuote(_, _)
NextQuote(s, i) ==
    IF i > Len(s) THEN 0 ELSE IF s[i] = QUOTE THEN i ELSE NextQuote(s, i + 1)

\* s[i] is the opening quote; the string ends at the next quote
ScanString(s, i) ==
    LET j == NextQuote(s, i + 1)
    IN  IF j = 0 THEN DecodeError
        ELSE IF \E n \in (i + 1)..(j - 1) : s[n] \in ControlChars THEN DecodeError
        ELSE Decoded(Str(SubSeq(s, i + 1, j - 1)), j + 1)

RECURSIVE ScanOnce(_, _)
RECURSIVE ArrayItems(_, _, _)
RECURSIVE ObjectItems(_, _, _)

\* i is the index of the next value; acc the values read so far
ArrayItems(s, i, acc) ==
    LET r == ScanOnce(s, i)
        e == SkipWs(s, r.pos)
    IN  IF ~r.ok THEN DecodeError
        ELSE IF At(s, e) = "]" THEN Decoded(Arr(Append(acc, r.val)), e + 1)
        ELSE IF At(s, e) = "," THEN ArrayItems(s, SkipWs(s, e + 1), Append(acc, r.val))
        ELSE DecodeError

\* i is the index of the next key's opening quote; acc the pairs read so far
ObjectItems(s, i, acc) ==
    LET key == ScanString(s, i)
        c == SkipWs(s, key.pos)
        r == ScanOnce(s, SkipWs(s, c + 1))
        e == SkipWs(s, r.pos)
        pairs == SetItem(acc, key.val.v, r.val)
    IN  IF At(s, i) # QUOTE THEN DecodeError
        ELSE IF ~key.ok THEN DecodeError
        ELSE IF At(s, c) # ":" THEN DecodeError
        ELSE IF ~r.ok THEN DecodeError
        ELSE IF At(s, e) = "}" THEN Decoded(Obj(pairs), e + 1)
        ELSE IF At(s, e) = "," THEN ObjectItems(s, SkipWs(s, e + 1), pairs)
        ELSE DecodeError

ScanOnce(s, i) ==
    CASE At(s, i) = QUOTE -> ScanString(s, i)
      [] At(s, i) = "{" ->
            LET n == SkipWs(s, i + 1)
            IN  IF At(s, n) = "}" THEN Decoded(Obj(<<>>), n + 1)
                ELSE ObjectItems(s, n, <<>>)
      [] At(s, i) = "[" ->
            LET n == SkipWs(s, i + 1)
            IN  IF At(s, n) = "]" THEN Decoded(Arr(<<>>), n + 1)
                ELSE ArrayItems(s, n, <<>>)
      [] At(s, i) = "null" -> Decoded(None, i + 1)
      [] OTHER -> DecodeError

\* json.loads(s): one value, white space around it, nothing after it
json_loads(s) ==
    LET r == ScanOnce(s, SkipWs(s, 1))
    IN  IF ~r.ok THEN DecodeError
        ELSE IF SkipWs(s, r.pos) # Len(s) + 1 THEN DecodeError
        ELSE r

-----------------------------------------------------------------------------
(* json.dumps(obj, indent=n); n = NoIndent stands for indent=None *)

NoIndent == -1

RECURSIVE Spaces(_)
Spaces(n) == IF n <= 0 THEN <<>> ELSE <<SP>> \o Spaces(n - 1)

\* the text between two items, and before the first one, at nesting level lvl
ItemBreak(indent, lvl) ==
    IF indent = NoIndent THEN <<>> ELSE <<NL>> \o Spaces(indent * lvl)

ItemSeparator(indent, lvl) ==
    IF indent = NoIndent THEN <<",", SP>> ELSE <<",">> \o ItemBreak(indent, lvl)

RECURSIVE Encode(_, _, _)
RECURSIVE EncodeItems(_, _, _, _)

\* the items of a list or dict from index i on
EncodeItems(x, i, indent, lvl) ==
    IF i > Len(x.v) THEN <<>>
    ELSE (IF i = 1 THEN ItemBreak(indent, lvl) ELSE ItemSeparator(indent, lvl))
         \o (IF x.t = "obj"
             THEN <<QUOTE>> \o x.v[i].k \o <<QUOTE, ":", SP>> \o Encode(x.v[i].val, indent, lvl)
             ELSE Encode(x.v[i], indent, lvl))
         \o EncodeItems(x, i + 1, indent, lvl)

Encode(x, indent, lvl) ==
    CASE x.t = "none" -> <<"null">>
      [] x.t = "str" -> <<QUOTE>> \o x.v \o <<QUOTE>>
      [] x.t = "arr" ->
            IF x.v = <<>> THEN <<"[", "]">>
            ELSE <<"[">> \o EncodeItems(x, 1, indent, lvl + 1) \o ItemBreak(indent, lvl) \o <<"]">>
      [] x.t = "obj" ->
            IF x.v = <<>> THEN <<"{", "}">>
            ELSE <<"{">> \o EncodeItems(x, 1, indent, lvl + 1) \o ItemBreak(indent, lvl) \o <<"}">>

json_dumps(x, indent) == Encode(x, indent, 0)

-----------------------------------------------------------------------------
(* The insight record of the prompt's schema, and the replies of the        *)
(* generation service that the analyzer is run against.                     *)

Key(w) == <<w>>
Text(w) == Str(<<w>>)

BudgetIsTight == <<"budget", SP, "is", SP, "tight">>

ActionItem ==
    Obj(<<KV(Key("action"), Str(<<"Send", SP, "quote">>)),
          KV(Key("owner"), Text("Sales")),
          KV(Key("deadline"), Text("Friday")),
          KV(Key("priority"), Text("High"))>>)

FullRecord ==
    Obj(<<KV(Key("technical_requirements"), Arr(<<Str(<<"Epic", SP, "integration">>)>>)),
          KV(Key("pain_points"),
             Obj(<<KV(Key("operational"), Arr(<<>>)),
                   KV(Key("technical"), Arr(<<>>)),
                   KV(Key("financial"), Arr(<<Str(BudgetIsTight)>>)),
                   KV(Key("clinical"), Arr(<<>>)),
                   KV(Key("priority_level"), Obj(<<KV(BudgetIsTight, Text("High"))>>))>>)),
          KV(Key("buying_signals"),
             Obj(<<KV(Key("budget_indicators"), Arr(<<Str(BudgetIsTight)>>)),
                   KV(Key("timeline_urgency"), Arr(<<Text("Q3")>>)),
                   KV(Key("decision_process"), Arr(<<>>)),
                   KV(Key("competitor_mentions"), Arr(<<>>)),
                   KV(Key("positive_signals"), Arr(<<>>)),
                   KV(Key("concerns"), Arr(<<>>))>>)),
          KV(Key("stakeholders"),
             Obj(<<KV(Key("decision_makers"), Arr(<<Str(<<"Dr.", SP, "Smith">>)>>)),
                   KV(Key("technical_reviewers"), Arr(<<>>)),
                   KV(Key("end_users"), Arr(<<>>)),
                   KV(Key("other_stakeholders"), Arr(<<>>))>>)),
          KV(Key("timeline_info"),
             Obj(<<KV(Key("start_date"), Text("Q3")),
                   KV(Key("implementation_phases"), Arr(<<Text("Pilot")>>)),
                   KV(Key("dependencies"), Arr(<<>>)),
                   KV(Key("key_milestones"), Arr(<<>>))>>)),
          KV(Key("pricing_discussion"),
             Obj(<<KV(Key("model_discussed"), Text("subscription")),
                   KV(Key("budget_constraints"), Text("tight")),
                   KV(Key("competitor_pricing"), Text("unknown")),
                   KV(Key("volume_considerations"), Text("unknown"))>>)),
          KV(Key("next_steps"), Arr(<<ActionItem>>))>>)

\* A key of the schema is named by its path: <<top>> for a top-level key,
\* <<top, key>> for a key of a nested object, <<"next_steps", "item", key>>
\* for a key of an action item.
TopLevelPaths == {<<FullRecord.v[i].k[1]>> : i \in 1..Len(FullRecord.v)}

NestedPaths ==
    UNION {{<<FullRecord.v[i].k[1], FullRecord.v[i].val.v[j].k[1]>> :
                j \in 1..Len(FullRecord.v[i].val.v)} :
           i \in {n \in 1..Len(FullRecord.v) : FullRecord.v[n].val.t = "obj"}}

ActionItemPaths == {<<"next_steps", "item", ActionItem.v[i].k[1]>> : i \in 1..Len(ActionItem.v)}

RECURSIVE Filter(_, _)
Filter(pairs, absent) ==
    IF pairs = <<>> THEN <<>>
    ELSE (IF Head(pairs).k \in absent THEN <<>> ELSE <<Head(pairs)>>)
         \o Filter(Tail(pairs), absent)

\* d without the keys of the set absent
Without(d, absent) == Obj(Filter(d.v, absent))

\* the paths of absent below the key top
Below(absent, top) == {Tail(p) : p \in {q \in absent : Len(q) > 1 /\ q[1] = top}}

\* x without the keys that the paths of absent name
RECURSIVE Prune(_, _)
Prune(x, absent) ==
    IF absent = {} THEN x
    ELSE IF x.t = "arr" THEN Arr([i \in 1..Len(x.v) |-> Prune(x.v[i], Below(absent, "item"))])
    ELSE IF x.t = "obj"
    THEN LET kept == Filter(x.v, {p \in absent : Len(p) = 1})
         IN  Obj([i \in 1..Len(kept) |->
                    KV(kept[i].k, Prune(kept[i].val, Below(absent, kept[i].k[1])))])
    ELSE x

\* rec with the value under top-level key top replaced by val
With(rec, top, val) ==
    Obj([i \in 1..Len(rec.v) |-> IF rec.v[i].k = top THEN KV(top, val) ELSE rec.v[i]])

\* a string value that itself contains the fence characters
BacktickRecord ==
    With(FullRecord, Key("technical_requirements"),
         Arr(<<Str(<<"Use", SP, BT, BT, BT, SP, "fences">>)>>))

\* A reply's record is named by its shape: the schema's record ("full"), the
\* one with the fence characters in a string ("backtick") or the empty object
\* ("empty"), and the paths of the keys it leaves out.
Shape(variant, absent) == [variant |-> variant, absent |-> absent]

RecordOf(shape) ==
    CASE shape.variant = "full" -> Prune(FullRecord, shape.absent)
      [] shape.variant = "backtick" -> Prune(BacktickRecord, shape.absent)
      [] shape.variant = "empty" -> Obj(<<>>)
      [] OTHER -> None

\* the largest number of top-level keys a reply leaves out
MaxMissing == 1

PartialShapes ==
    {Shape("full", K) : K \in {A \in SUBSET TopLevelPaths : Cardinality(A) <= MaxMissing}}
    \cup {Shape("full", {p}) : p \in NestedPaths \cup ActionItemPaths}

Shapes == PartialShapes \cup {Shape("backtick", {}), Shape("empty", {})}

NoShape == Shape("none", {})

-----------------------------------------------------------------------------
(* The generation service (client.messages.create), seen from the caller:   *)
(* a stub says what the service does with the next call.                    *)

NoException == "none"

ApiErrors == {"APIConnectionError", "AuthenticationError", "RateLimitError"}

Prose == <<"Sorry", ",", SP, "I", SP, "cannot", SP, "analyze", SP, "this", ".">>

WrapKinds == {"unwrapped", "json_fence", "bare_fence"}

\* body as the service wraps it in a markdown code block
Wrap(kind, body) ==
    CASE kind = "unwrapped" -> body
      [] kind = "json_fence" -> JsonFence \o <<NL>> \o body \o <<NL>> \o Fence
      [] kind = "bare_fence" -> Fence \o <<NL>> \o body \o <<NL>> \o Fence

\* output cut off before the closing brace
Truncated(body) == SubSeq(body, 1, Len(body) - 1)

\* a comma before the closing brace
TrailingComma(body) == SubSeq(body, 1, Len(body) - 1) \o <<",", body[Len(body)]>>

\* the text of the reply that stub stands for
ResponseText(s) ==
    CASE s.kind = "json" -> Wrap(s.wrap, json_dumps(RecordOf(s.rec), s.indent))
      [] s.kind = "truncated" -> Wrap(s.wrap, Truncated(json_dumps(RecordOf(s.rec), s.indent)))
      [] s.kind = "trailing_comma" ->
            Wrap(s.wrap, TrailingComma(json_dumps(RecordOf(s.rec), s.indent)))
      [] s.kind = "prose" -> Wrap(s.wrap, Prose)
      [] OTHER -> <<>>

\* message = client.messages.create(...); message.content[0].text
messages_create(s) ==
    IF s.kind \in ApiErrors
    THEN [exc |-> s.kind, text |-> <<>>]
    ELSE [exc |-> NoException, text |-> ResponseText(s)]

Stub(kind, rec, wrap, indent) == [kind |-> kind, rec |-> rec, wrap |-> wrap, indent |-> indent]

NoStub == Stub("no call", NoShape, "unwrapped", NoIndent)

\* the replies the analyzer is run against: every record in every wrapping,
\* compact and indented; every record cut off or with a trailing comma; prose;
\* the failures of the call
AnalyzerStubs ==
    {Stub("json", r, w, n) : r \in Shapes, w \in WrapKinds, n \in {NoIndent, 2}}
    \cup {Stub(k, r, w, NoIndent) :
             k \in {"truncated", "trailing_comma"}, r \in Shapes, w \in WrapKinds}
    \cup {Stub("prose", NoShape, w, NoIndent) : w \in WrapKinds}
    \cup {Stub(e, NoShape, "unwrapped", NoIndent) : e \in ApiErrors}

\* the replies the page is run against
MissingPainPoints == Shape("full", {<<"pain_points">>})

PageStubs ==
    {Stub("json", r, w, NoIndent) :
        r \in {Shape("full", {}), MissingPainPoints}, w \in {"unwrapped", "json_fence"}}
    \cup {Stub("json", Shape("backtick", {}), "unwrapped", NoIndent),
          Stub("json", Shape("empty", {}), "unwrapped", NoIndent),
          Stub("prose", NoShape, "unwrapped", NoIndent),
          Stub("APIConnectionError", NoShape, "unwrapped", NoIndent)}

AllStubs == AnalyzerStubs \cup PageStubs \cup {NoStub}

-----------------------------------------------------------------------------
(* EnhancedDemoAnalyzer.analyze_transcript *)

ParseErrorReports == <<"JSON parsing error", "Raw response">>
AnalyzeErrorReport == <<"Error analyzing transcript">>

\* line 34; the value is bound to cleaned_transcript
cleaned_transcript(t) == Replace(Replace(Strip(t), NL, <<SP>>), CR, <<>>)

AnalysisPromptHead ==
    <<"Analyze this sales demo transcript and extract comprehensive insights.", NL,
      "Return your response as a valid JSON object (not a string) with these exact keys.", NL,
      "TRANSCRIPT:", NL>>

\* the f-string of lines 54-116: the schema text, then {transcript}
AnalysisPrompt(t) == AnalysisPromptHead \o t \o <<NL>>

\* the transcript as it stands in a prompt built by AnalysisPrompt
EmbeddedTranscript(content) ==
    SubSeq(content, Len(AnalysisPromptHead) + 1, Len(content) - 1)

AnalysisCall(t) ==
    [system |-> "sales analyst", max_tokens |-> 4096, content |-> AnalysisPrompt(t),
     model |-> "claude-3-haiku-20240307"]

\* the text handed to json.loads
StripFence(text) ==
    IF Contains(text, JsonFence)
    THEN Split(Split(text, JsonFence)[2], Fence)[1]
    ELSE IF Contains(text, Fence)
    THEN Split(Split(text, Fence)[2], Fence)[1]
    ELSE text

validate_json_response(text) ==
    LET r == json_loads(Strip(StripFence(text)))
    IN  IF r.ok
        THEN [exc |-> NoException, val |-> r.val, errors |-> <<>>]
        ELSE [exc |-> "JSONDecodeError", val |-> None, errors |-> ParseErrorReports]

\* the service's reply to each stub, and validate_json_response on it,
\* evaluated once
replies == [s \in AllStubs |-> messages_create(s)]

validated == [s \in AllStubs |-> validate_json_response(replies[s].text)]

\* the records the drafter is run on
DraftInsights ==
    {RecordOf(sh) : sh \in {Shape("full", {}), MissingPainPoints, Shape("backtick", {}),
                            Shape("empty", {})}}

\* json.dumps(x, indent=2) of these records, evaluated once
dumped == [x \in DraftInsights |-> json_dumps(x, 2)]

\* json.dumps(x, indent=2)
dumps_indent(x) == IF x \in DraftInsights THEN dumped[x] ELSE json_dumps(x, 2)

\* analyze_transcript without its outer try/except: the decoder's exception
\* reaches the caller
analyze_transcript_no_except(t, s) ==
    LET message == replies[s]
        parsed == validated[s]
    IN  IF message.exc # NoException
        THEN [exc |-> message.exc, val |-> None, errors |-> <<>>,
              calls |-> <<AnalysisCall(t)>>]
        ELSE IF parsed.exc # NoException
        THEN [exc |-> parsed.exc, val |-> None, errors |-> parsed.errors,
              calls |-> <<AnalysisCall(t)>>]
        ELSE [exc |-> NoException, val |-> parsed.val, errors |-> <<>>,
              calls |-> <<AnalysisCall(t)>>]

\* the result: the exception that escapes, the value returned, the errors
\* reported with st.error and the generation calls issued
analyze_transcript(t, s) ==
    LET message == replies[s]
        parsed == validated[s]
    IN  IF message.exc # NoException
        THEN [exc |-> NoException, val |-> None, errors |-> AnalyzeErrorReport,
              calls |-> <<AnalysisCall(t)>>]
        ELSE IF parsed.exc # NoException
        THEN [exc |-> NoException, val |-> None,
              errors |-> parsed.errors \o AnalyzeErrorReport,
              calls |-> <<AnalysisCall(t)>>]
        ELSE [exc |-> NoException, val |-> parsed.val, errors |-> <<>>,
              calls |-> <<AnalysisCall(t)>>]

-----------------------------------------------------------------------------
(* EnhancedDemoAnalyzer.generate_email_template *)

DraftErrorReport == <<"Error generating email">>

template_prompts ==
    [c \in {"technical", "executive", "clinical", "standard"} |->
        CASE c = "technical" -> "Focus on technical details and integration pathway"
          [] c = "executive" -> "Emphasize ROI and strategic value"
          [] c = "clinical" -> "Focus on clinical workflow improvements and patient care"
          [] c = "standard" -> "Balanced overview of all aspects"]

\* d.get(key, default)
DictGet(d, key, default) == IF key \in DOMAIN d THEN d[key] ELSE default

\* template_prompts.get(template_type) with the default left out
TemplateFragment_no_default(ttype) == DictGet(template_prompts, ttype, "None")

\* line 139
TemplateFragment(ttype) == DictGet(template_prompts, ttype, template_prompts["standard"])

FocusLabel == <<"Template Focus:", SP>>

\* the f-string of lines 146-164
DraftPrompt(name, fragment, ins) ==
    <<"Write a strategic follow-up email to", SP>> \o name \o <<".", NL,
      "Requirements:", NL, "Style Guide:", NL>>
    \o FocusLabel \o <<fragment, NL, "INSIGHTS:", NL>> \o dumps_indent(ins)

\* the instructional fragment as it stands in a prompt built by DraftPrompt
EmbeddedFragment(content) == content[Find(content, FocusLabel, 1) + Len(FocusLabel)]

DraftCall(name, fragment, ins) ==
    [system |-> "sales representative", max_tokens |-> 1024,
     content |-> DraftPrompt(name, fragment, ins), model |-> "claude-3-haiku-20240307"]

DraftText == <<"Hi,", SP, "thank", SP, "you", SP, "for", SP, "the", SP, "demo.">>

\* what the service does with the drafter's call: a draft, an empty text, an error
DraftReplies == {"draft", "empty"}

draft_create(ds) ==
    IF ds \in ApiErrors THEN [exc |-> ds, text |-> <<>>]
    ELSE [exc |-> NoException, text |-> IF ds = "draft" THEN DraftText ELSE <<>>]

generate_email_template(ins, name, ttype, ds) ==
    LET prompt == TemplateFragment(ttype)
        message == draft_create(ds)
    IN  IF message.exc # NoException
        THEN [exc |-> NoException, val |-> <<>>, errors |-> DraftErrorReport,
              calls |-> <<DraftCall(name, prompt, ins)>>]
        ELSE [exc |-> NoException, val |-> message.text, errors |-> <<>>,
              calls |-> <<DraftCall(name, prompt, ins)>>]

-----------------------------------------------------------------------------
(* main, lines 213-265: the insight panels and the action items.  Each      *)
(* panel operator gives the exception its code raises on ins, if any.       *)

\* `for x in v` works
Iterable(v) == v.t \in {"str", "arr", "obj"}

\* v can be a dict key
Hashable(v) == v.t \in {"none", "str"}

RECURSIVE FirstException(_)
FirstException(excs) ==
    IF excs = <<>> THEN NoException
    ELSE IF Head(excs) # NoException THEN Head(excs)
    ELSE FirstException(Tail(excs))

\* lines 223-226 for one category of pain_points
PainPointCategory(pp, i) ==
    LET points == pp.v[i].val
        level == GetItem(pp, Key("priority_level"))
    IN  IF pp.v[i].k = Key("priority_level") THEN NoException
        ELSE IF ~Iterable(points) THEN "TypeError"
        ELSE IF Len(points.v) = 0 THEN NoException
        ELSE IF ~HasKey(pp, Key("priority_level")) THEN "KeyError"
        ELSE IF level.t # "obj" THEN "AttributeError"
        ELSE IF points.t = "arr" /\ \E n \in 1..Len(points.v) : ~Hashable(points.v[n])
        THEN "TypeError"
        ELSE NoException

\* lines 219-226
PainPointsPanel(ins) ==
    LET pp == GetItem(ins, Key("pain_points"))
    IN  IF ~HasKey(ins, Key("pain_points")) THEN "KeyError"
        ELSE IF pp.t # "obj" THEN "AttributeError"
        ELSE FirstException([i \in 1..Len(pp.v) |-> PainPointCategory(pp, i)])

\* lines 228-232 and 238-242: for k, vs in insights[key].items(): for v in vs
CategoryPanel(ins, key) ==
    LET d == GetItem(ins, key)
    IN  IF ~HasKey(ins, key) THEN "KeyError"
        ELSE IF d.t # "obj" THEN "AttributeError"
        ELSE IF \E i \in 1..Len(d.v) : ~Iterable(d.v[i].val) THEN "TypeError"
        ELSE NoException

\* lines 234-236
TechnicalRequirementsPanel(ins) ==
    IF ~HasKey(ins, Key("technical_requirements")) THEN "KeyError"
    ELSE IF ~Iterable(GetItem(ins, Key("technical_requirements"))) THEN "TypeError"
    ELSE NoException

\* lines 244-253
TimelinePanel(ins) ==
    LET timeline == GetItem(ins, Key("timeline_info"))
    IN  IF ~HasKey(ins, Key("timeline_info")) THEN "KeyError"
        ELSE IF timeline.t # "obj" THEN "TypeError"
        ELSE IF ~HasKey(timeline, Key("start_date")) THEN "KeyError"
        ELSE IF ~HasKey(timeline, Key("implementation_phases")) THEN "KeyError"
        ELSE IF ~Iterable(GetItem(timeline, Key("implementation_phases"))) THEN "TypeError"
        ELSE NoException

\* lines 255-257
PricingPanel(ins) ==
    IF ~HasKey(ins, Key("pricing_discussion")) THEN "KeyError"
    ELSE IF GetItem(ins, Key("pricing_discussion")).t # "obj" THEN "AttributeError"
    ELSE NoException

\* lines 261-265 for one action item
ActionItemRow(item) ==
    IF item.t # "obj" THEN "TypeError"
    ELSE IF ~HasKey(item, Key("priority")) THEN "KeyError"
    ELSE IF ~HasKey(item, Key("action")) THEN "KeyError"
    ELSE IF ~HasKey(item, Key("owner")) THEN "KeyError"
    ELSE IF ~HasKey(item, Key("deadline")) THEN "KeyError"
    ELSE IF GetItem(item, Key("action")).t \in {"none", "obj"} THEN "TypeError"
    ELSE NoException

\* lines 259-265; the records of this model carry at most one action item, so
\* the checkbox keys are distinct
ActionItemsPanel(ins) ==
    LET steps == GetItem(ins, Key("next_steps"))
    IN  IF ~HasKey(ins, Key("next_steps")) THEN "KeyError"
        ELSE IF ~Iterable(steps) THEN "TypeError"
        ELSE IF steps.t # "arr" THEN (IF Len(steps.v) = 0 THEN NoException ELSE "TypeError")
        ELSE FirstException([i \in 1..Len(steps.v) |-> ActionItemRow(steps.v[i])])

Panels ==
    <<"Pain Points", "Buying Signals", "Technical Requirements", "Stakeholders",
      "Timeline", "Pricing Discussion", "Action Items">>

Panel(ins, name) ==
    CASE name = "Pain Points" -> PainPointsPanel(ins)
      [] name = "Buying Signals" -> CategoryPanel(ins, Key("buying_signals"))
      [] name = "Technical Requirements" -> TechnicalRequirementsPanel(ins)
      [] name = "Stakeholders" -> CategoryPanel(ins, Key("stakeholders"))
      [] name = "Timeline" -> TimelinePanel(ins)
      [] name = "Pricing Discussion" -> PricingPanel(ins)
      [] name = "Action Items" -> ActionItemsPanel(ins)

\* the panels from index i on: the exception that ends the run, if any, and
\* the panels completed before it
RECURSIVE RenderFrom(_, _, _)
RenderFrom(ins, i, done) ==
    IF i > Len(Panels) THEN [exc |-> NoException, panels |-> done]
    ELSE IF Panel(ins, Panels[i]) # NoException
    THEN [exc |-> Panel(ins, Panels[i]), panels |-> done]
    ELSE RenderFrom(ins, i + 1, Append(done, Panels[i]))

\* lines 214-265
RenderInsights(ins) ==
    IF ~Truthy(ins) THEN [exc |-> NoException, panels |-> <<>>]
    ELSE IF ins.t # "obj" THEN [exc |-> "TypeError", panels |-> <<>>]
    ELSE RenderFrom(ins, 1, <<>>)

-----------------------------------------------------------------------------
(* main: one run of the script.  Streamlit runs it once per interaction;    *)
(* st.session_state (insights, email_draft) is what survives between runs.  *)

\* __init__ without the check of the key
analyzer_init_unchecked(key) == NoException

\* EnhancedDemoAnalyzer.__init__, lines 16-21: the exception it raises
analyzer_init(key) == IF ~key THEN "ValueError" ELSE NoException

\* line 206 without the test of the record
ShouldDraft_name_only(name, ins) == Truthy(Str(name))

\* line 206
ShouldDraft(name, ins) == Truthy(Str(name)) /\ Truthy(ins)

\* line 267
ShowDraft(draft) == Truthy(draft)

\* lines 277-282
DownloadButton(ins) == [offered |-> TRUE, data |-> dumps_indent(ins)]

NoDownload == [offered |-> FALSE, data |-> <<>>]

\* One run with the widget values t, name, ttype; clicked says whether the
\* run was caused by the Analyze Demo button; s and ds are what the service
\* does with the calls of this run.
main(clicked, t, name, ttype, s, ds) ==
    LET empty == clicked /\ ~Truthy(Str(t))
        init == IF clicked /\ ~empty THEN analyzer_init(api_key) ELSE NoException
        analysed == clicked /\ ~empty /\ init = NoException
    IN  \E a \in {IF analysed THEN analyze_transcript(t, s)
                  ELSE [exc |-> NoException, val |-> insights, errors |-> <<>>,
                        calls |-> <<>>]} :
        \E drafted \in {analysed /\ ShouldDraft(name, a.val)} :
        \E d \in {IF drafted THEN generate_email_template(a.val, name, ttype, ds)
                  ELSE [exc |-> NoException, val |-> <<>>, errors |-> <<>>,
                        calls |-> <<>>]} :
        \E draft \in {IF drafted THEN Str(d.val) ELSE email_draft} :
        \E page \in {RenderInsights(a.val)} :
        \E exc \in {IF empty THEN "return"
                    ELSE IF init # NoException THEN init
                    ELSE page.exc} :
            /\ insights' = a.val
            /\ email_draft' = draft
            /\ draft_from' = IF drafted THEN a.val ELSE draft_from
            /\ transcript' = t
            /\ contact_name' = name
            /\ template_type' = ttype
            /\ stub' = IF analysed THEN s ELSE NoStub
            /\ draft_stub' = IF drafted THEN ds ELSE "no call"
            /\ calls' = a.calls \o d.calls
            /\ errors' = IF empty THEN <<"Please paste a demo transcript">>
                         ELSE a.errors \o d.errors
            /\ outcome' = IF exc = NoException THEN "complete" ELSE exc
            /\ returned' = IF analysed THEN a.val ELSE None
            /\ rendered' = IF exc \in {"return", "ValueError"} THEN <<>> ELSE page.panels
            /\ download' = IF exc = NoException /\ ShowDraft(draft)
                           THEN DownloadButton(a.val) ELSE NoDownload
            /\ button' = clicked
            /\ UNCHANGED api_key

-----------------------------------------------------------------------------
(* The page over a session *)

\* the choices of the selectbox, line 189
TemplateChoices == {"standard", "technical", "executive", "clinical"}

DemoTranscript == <<"Dr.", SP, "Smith", SP, "needs", SP, "Epic", NL, "budget", SP, "is", SP, "tight">>

PageTranscripts == {<<>>, DemoTranscript}

PageContacts == {<<>>, <<"Dr.", SP, "Smith">>}

PageDraftStubs == {"draft", "empty", "RateLimitError"}

Init ==
    /\ api_key \in BOOLEAN
    /\ insights = None
    /\ email_draft = None
    /\ draft_from = None
    /\ transcript = <<>>
    /\ contact_name = <<>>
    /\ template_type = "standard"
    /\ stub = NoStub
    /\ draft_stub = "no call"
    /\ calls = <<>>
    /\ errors = <<>>
    /\ outcome = "not run"
    /\ returned = None
    /\ rendered = <<>>
    /\ download = NoDownload
    /\ button = FALSE

\* the user presses Analyze Demo
ClickAnalyze ==
    \E s \in PageStubs, ds \in PageDraftStubs :
        \E t \in PageTranscripts, name \in PageContacts, ttype \in TemplateChoices :
            main(TRUE, t, name, ttype, s, ds)

\* any other run: the page is loaded, a widget edited, Copy to Clipboard pressed
Rerun ==
    \E t \in PageTranscripts, name \in PageContacts, ttype \in TemplateChoices :
        main(FALSE, t, name, ttype, NoStub, "no call")

Next == ClickAnalyze \/ Rerun

Spec == Init /\ [][Next]_vars

-----------------------------------------------------------------------------
(* analyze_transcript on its own: Init draws the transcript and the reply   *)
(* of the service, CallAnalyze applies the method.                          *)

TranscriptChars == {"a", SP, NL, CR}

\* the longest transcript, in characters
MaxTranscriptLen == 3

Transcripts == UNION {[1..n -> TranscriptChars] : n \in 0..MaxTranscriptLen}

InitAnalyzer ==
    /\ api_key = TRUE
    /\ insights = None
    /\ email_draft = None
    /\ draft_from = None
    /\ transcript \in Transcripts
    /\ contact_name = <<>>
    /\ template_type = "standard"
    /\ stub \in AnalyzerStubs
    /\ draft_stub = "no call"
    /\ calls = <<>>
    /\ errors = <<>>
    /\ outcome = "pending"
    /\ returned = None
    /\ rendered = <<>>
    /\ download = NoDownload
    /\ button = FALSE

CallAnalyze ==
    /\ outcome = "pending"
    /\ LET a == analyze_transcript(transcript, stub)
       IN  /\ returned' = a.val
           /\ errors' = a.errors
           /\ calls' = a.calls
           /\ outcome' = IF a.exc = NoException THEN "returned" ELSE a.exc
    /\ UNCHANGED <<api_key, insights, email_draft, draft_from, transcript, contact_name,
                   template_type, stub, draft_stub, rendered, download, button>>

NextAnalyzer == CallAnalyze

AnalyzerSpec == InitAnalyzer /\ [][NextAnalyzer]_vars

-----------------------------------------------------------------------------
(* generate_email_template on its own: Init draws the record, the contact,  *)
(* the template category and the reply of the service, CallDraft applies    *)
(* the method.                                                              *)

\* the four categories, and values that are none of them
TemplateCategories == TemplateChoices \cup {"legal", "", "Standard", "TECHNICAL"}

DraftStubs == DraftReplies \cup ApiErrors

InitDrafter ==
    /\ api_key = TRUE
    /\ insights \in DraftInsights
    /\ email_draft = None
    /\ draft_from = None
    /\ transcript = <<>>
    /\ contact_name \in PageContacts
    /\ template_type \in TemplateCategories
    /\ stub = NoStub
    /\ draft_stub \in DraftStubs
    /\ calls = <<>>
    /\ errors = <<>>
    /\ outcome = "pending"
    /\ returned = None
    /\ rendered = <<>>
    /\ download = NoDownload
    /\ button = FALSE

CallDraft ==
    /\ outcome = "pending"
    /\ LET d == generate_email_template(insights, contact_name, template_type, draft_stub)
       IN  /\ returned' = Str(d.val)
           /\ errors' = d.errors
           /\ calls' = d.calls
           /\ outcome' = IF d.exc = NoException THEN "returned" ELSE d.exc
    /\ UNCHANGED <<api_key, insights, email_draft, draft_from, transcript, contact_name,
                   template_type, stub, draft_stub, rendered, download, button>>

NextDrafter == CallDraft

DrafterSpec == InitDrafter /\ [][NextDrafter]_vars

-----------------------------------------------------------------------------
(* Properties *)

IsAnalysisCall(c) == c.system = "sales analyst"
IsDraftCall(c) == c.system = "sales representative"

\* the reply of the last analyzer call, with its wrapping taken off
Unwrapped(s) == Stub(s.kind, s.rec, "unwrapped", s.indent)

\* C1: when the reply is the JSON text of a record of the schema, bare or in
\* a json fence or in a bare fence, analyze_transcript returns that record,
\* and the same value as for the bare text, also when a string of the record
\* contains three backticks.
C1_FenceStrippingLossless ==
    (outcome = "returned" /\ stub.kind = "json") =>
        /\ returned = RecordOf(stub.rec)
        /\ returned = validated[Unwrapped(stub)].val
        /\ errors = <<>>

\* C2: when the reply does not decode as JSON after the fence is taken off,
\* analyze_transcript reports an error, returns None and lets no exception
\* reach its caller.
C2_MalformedYieldsNone ==
    (outcome # "pending"
     /\ (stub.kind \in {"truncated", "trailing_comma", "prose"}
         \/ validated[stub].exc = "JSONDecodeError")
     /\ stub.kind \notin ApiErrors) =>
        /\ outcome = "returned"
        /\ returned = None
        /\ errors = ParseErrorReports \o AnalyzeErrorReport

C2_Witness ==
    /\ outcome = "returned"
    /\ stub.kind = "trailing_comma"
    /\ stub.wrap = "json_fence"
    /\ returned = None
    /\ errors = ParseErrorReports \o AnalyzeErrorReport

\* C3: in a run, the drafter's call comes only after the analyzer's call of
\* the same run has returned a record; when the analyzer returned None, the
\* run issues no drafter call.
C3_DraftOnlyAfterRecord ==
    /\ (\E i \in 1..Len(calls) : IsDraftCall(calls[i])) =>
            /\ Len(calls) = 2
            /\ IsAnalysisCall(calls[1])
            /\ IsDraftCall(calls[2])
            /\ returned # None
            /\ insights = returned
    /\ returned = None => \A i \in 1..Len(calls) : ~IsDraftCall(calls[i])

C3_Witness ==
    /\ button
    /\ Len(calls) = 2
    /\ IsDraftCall(calls[2])
    /\ returned = RecordOf(Shape("full", {}))

\* C4: after a generation call of the analyzer has failed, the failure is
\* reported and the session holds no record; the next Analyze issues one
\* fresh analyzer call and, when the reply is well-formed JSON, stores its
\* record.
C4_RetryAfterCallFailure ==
    /\ [](stub.kind \in ApiErrors =>
            /\ insights = None
            /\ errors = AnalyzeErrorReport
            /\ Len(calls) = 1)
    /\ [][(stub.kind \in ApiErrors /\ stub'.kind = "json") =>
            /\ Len(SelectSeq(calls', IsAnalysisCall)) = 1
            /\ insights' = RecordOf(stub'.rec)]_vars

\* C5: the fragment in the drafter's prompt is the category's own for the
\* four categories and the one of "standard" for any other value; the drafter
\* does not fail on an unknown category.
C5_UnknownCategoryFallsBack ==
    outcome = "returned" =>
        /\ Len(calls) = 1
        /\ IsDraftCall(calls[1])
        /\ EmbeddedFragment(calls[1].content) =
                (IF template_type \in {"technical", "executive", "clinical", "standard"}
                 THEN template_prompts[template_type]
                 ELSE "Balanced overview of all aspects")
        /\ draft_stub = "draft" => (returned = Str(DraftText) /\ errors = <<>>)

C5_Witness ==
    /\ outcome = "returned"
    /\ template_type = "legal"
    /\ draft_stub = "draft"
    /\ returned = Str(DraftText)
    /\ EmbeddedFragment(calls[1].content) = "Balanced overview of all aspects"

\* C6: for every record the session holds, with whatever keys absent, the
\* run renders all panels and the action items and ends without an exception.
C6_RenderToleratesMissingKeys ==
    (Truthy(insights) /\ outcome \notin {"not run", "return", "ValueError"}) =>
        /\ outcome = "complete"
        /\ rendered = Panels

\* C7: when the download is offered, its data is the indented JSON of the
\* record the session holds and that record is not None; and the download is
\* offered whenever the session holds a record.
C7_ExportIsCurrentRecord ==
    /\ download.offered => (insights # None /\ download.data = json_dumps(insights, 2))
    /\ insights # None => download.offered

\* C8: without the credential the page is never usable: no run completes,
\* no transcript and no press of Analyze is accepted, no generation call is
\* issued.
C8_FatalAtStartup ==
    ~api_key =>
        /\ outcome # "complete"
        /\ transcript = <<>>
        /\ ~button
        /\ calls = <<>>

\* C8 as amended: without the credential, a press of Analyze with a
\* transcript ends in the ValueError of the analyzer's construction; no
\* generation call is issued and the session holds neither record nor draft.
C8_FatalAtAnalyze ==
    ~api_key =>
        /\ calls = <<>>
        /\ insights = None
        /\ email_draft = None
        /\ (button /\ transcript # <<>>) => (outcome = "ValueError" /\ rendered = <<>>)

C8_Witness ==
    /\ ~api_key
    /\ button
    /\ transcript = DemoTranscript
    /\ outcome = "ValueError"

\* C9: the transcript in the analyzer's prompt is the input stripped, with
\* each newline replaced by a space and each carriage return removed, so it
\* holds no line break.
C9_PromptTranscriptStripped ==
    outcome = "returned" =>
        LET embedded == EmbeddedTranscript(calls[1].content)
        IN  /\ embedded = cleaned_transcript(transcript)
            /\ \A i \in 1..Len(embedded) : embedded[i] \notin {NL, CR}

\* C10: whenever the session holds a non-empty draft, the draft was generated
\* from the record the session holds now.
C10_DraftFromCurrentRecord ==
    ShowDraft(email_draft) => (insights # None /\ draft_from = insights)

====
